---- MODULE Spec2Model ----
(***************************************************************************)
(* Model of scrapy.pipelines.images.ImagesPipeline: image_downloaded,      *)
(* get_images, convert_image, file_path and thumb_path.                    *)
(*                                                                         *)
(* An image is a record [format, mode, w, h, v, a]: the Pillow format tag  *)
(* ("NoFormat" stands for Image.format = None, which is what every image   *)
(* derived by convert() or copy() carries), the colour mode, the size and  *)
(* one representative pixel: v is its channel value (0 black .. 255        *)
(* white) and a its alpha (0 transparent, 255 opaque).                     *)
(* A response body is a record [img, variant]: the image it decodes to and *)
(* the ancillary bytes (metadata, compression parameters) that decoding    *)
(* drops, so two different bodies can decode to the same image.            *)
(* Optional values are sequences of length at most one: <<>> is None.      *)
(***************************************************************************)
EXTENDS Integers, Sequences, FiniteSets, TLC

VARIABLES
    cfg,        \* the pipeline's settings, fixed by __init__
    flag,       \* self._deprecated_convert_image
    request,    \* request[i]: the URL of invocation i's request
    response,   \* response[i]: the body of invocation i's response
    pc,         \* pc[i]: where invocation i of image_downloaded stands
    heap,       \* heap[i]: the Image objects invocation i has created
    loc,        \* loc[i]: the local variables of image_downloaded/get_images
    yielded,    \* yielded[i]: the triples get_images has yielded
    persisted,  \* persisted[i]: the store.persist_file calls made
    result,     \* result[i]: what image_downloaded returned
    obs,        \* obs[i]: flag reads, calling conventions, warnings, counters
    call,       \* arguments of a stand-alone convert_image call
    ret         \* its result

vars == <<cfg, flag, request, response, pc, heap, loc, yielded, persisted,
          result, obs, call, ret>>

pipeVars == <<cfg, flag, request, response, pc, heap, loc, yielded, persisted,
              result, obs>>

(***************************************************************************)
(* Bounds of the exploration.                                              *)
(***************************************************************************)
MaxDim == 3      \* source widths and heights range over 1..MaxDim
MaxBox == 2      \* thumbnail bounds range over 1..MaxBox
MaxMin == 3      \* IMAGES_MIN_WIDTH / IMAGES_MIN_HEIGHT range over 0..MaxMin
BigDim == 7      \* source sizes of the stand-alone convert_image calls
BigBox == 5      \* thumbnail bounds of the stand-alone convert_image calls

NoneVal == <<>>
Some(x) == <<x>>

White == 255
Opaque == 255
NoFormat == "NoFormat"

Max2(a, b) == IF a >= b THEN a ELSE b
Abs(x) == IF x < 0 THEN -x ELSE x

(***************************************************************************)
(* Pillow: the image operations convert_image uses.                        *)
(***************************************************************************)
HasAlpha(mode) == mode \in {"RGBA", "LA", "P"}

\* Image.open(BytesIO(body)): the decoded image; the variant bytes are gone.
ImageOpen(body) == body.img

\* image.convert(mode): a new image, format None; an alpha band is kept if
\* the target has one and dropped (not composited) otherwise.
Convert(img, mode) ==
    [img EXCEPT !.format = NoFormat,
                !.mode = mode,
                !.a = IF HasAlpha(mode) /\ HasAlpha(img.mode) THEN img.a ELSE Opaque]

\* background = Image.new("RGBA", size, (255, 255, 255));
\* background.paste(image, image): image over white, masked by its alpha.
PasteOnWhite(img) ==
    [img EXCEPT !.format = NoFormat,
                !.mode = "RGBA",
                !.v = (img.v * img.a + White * (Opaque - img.a)) \div Opaque,
                !.a = Opaque]

\* round_aspect of Image.thumbnail: floor or ceiling of num/den, whichever
\* has the smaller key (the floor on a tie), and at least 1.
RoundAspectX(w, h, y) ==
    LET lo == (y * w) \div h
        hi == IF (y * w) % h = 0 THEN lo ELSE lo + 1
        key(n) == Abs(w * y - n * h)           \* |w/h - n/y| * (h*y)
    IN  Max2(IF key(lo) <= key(hi) THEN lo ELSE hi, 1)

RoundAspectY(w, h, x) ==
    LET lo == (x * h) \div w
        hi == IF (x * h) % w = 0 THEN lo ELSE lo + 1
        \* n = 0 has key 0; else |w/h - x/n| = |w*n - x*h| / (h*n)
        less(n, m) == Abs(w * n - x * h) * m <= Abs(w * m - x * h) * n
    IN  Max2(IF lo = 0 THEN lo ELSE IF less(lo, hi) THEN lo ELSE hi, 1)

ThumbnailNoClamp(w, h, x, y) ==
    IF x * h >= y * w
    THEN <<RoundAspectX(w, h, y), y>>
    ELSE <<x, RoundAspectY(w, h, x)>>

\* Image.thumbnail(size): the size the image is resized to, in place
\* (preserve_aspect_ratio of Pillow 7.0 and later: unchanged when the image
\* fits, else the limiting axis takes its bound and the other is rounded).
ThumbnailSize(w, h, x, y) ==
    IF x >= w /\ y >= h
    THEN <<w, h>>
    ELSE IF x * h >= y * w
         THEN <<RoundAspectX(w, h, y), y>>
         ELSE <<x, RoundAspectY(w, h, x)>>

Thumbnail(img, size) ==
    LET s == ThumbnailSize(img.w, img.h, size[1], size[2])
    IN  [img EXCEPT !.w = s[1], !.h = s[2]]

\* image.save(buf, "JPEG"): the bytes of a fresh JPEG of the image.
Save(img) ==
    [kind |-> "jpeg",
     img |-> [format |-> "JPEG", mode |-> "RGB", w |-> img.w, h |-> img.h,
              v |-> img.v, a |-> Opaque],
     variant |-> 0]

\* response.body as bytes.
RawBytes(body) == [kind |-> "raw", img |-> body.img, variant |-> body.variant]

EmptyBytes ==
    [kind |-> "empty",
     img |-> [format |-> NoFormat, mode |-> "RGB", w |-> 0, h |-> 0,
              v |-> 0, a |-> 0],
     variant |-> 0]

\* BytesIO objects: their bytes and their position.
BytesIO(data) == [data |-> data, pos |-> "start"]
Written(data) == [data |-> data, pos |-> "end"]
Seek0(buf) == [buf EXCEPT !.pos = "start"]
ReadAll(buf) == IF buf.pos = "start" THEN buf.data ELSE EmptyBytes

\* hashlib: injective on the values of the model.
Md5(data) == <<"md5", data>>
Sha1(url) == <<"sha1", url>>

\* _md5sum(buf): the digest of what is read from the buffer's position on.
Md5Sum(buf) == Md5(ReadAll(buf))

(***************************************************************************)
(* ImagesPipeline.convert_image (the default implementation).              *)
(* hp is the caller's heap of Image objects, h the handle of the image     *)
(* argument, size an optional <<width, height>>, response_body an optional *)
(* BytesIO.  The result carries the heap after the call, the handle and    *)
(* buffer returned, and whether the call warned.                           *)
(***************************************************************************)
Alloc(hp, img) == [heap |-> Append(hp, img), image |-> Len(hp) + 1]

\* lines 260-270: the colour normalisation.
NormalizeImage(img) ==
    IF img.format \in {"PNG", "WEBP"} /\ img.mode = "RGBA"
    THEN Convert(PasteOnWhite(img), "RGB")
    ELSE IF img.mode = "P"
         THEN Convert(PasteOnWhite(Convert(img, "RGBA")), "RGB")
         ELSE IF img.mode # "RGB"
              THEN Convert(img, "RGB")
              ELSE img

\* each of the three branches of lines 260-270 binds image to a new object;
\* an image already in mode RGB stays the object it was.
Normalize(hp, h) ==
    IF hp[h].mode # "RGB"
    THEN Alloc(hp, NormalizeImage(hp[h]))
    ELSE [heap |-> hp, image |-> h]

CopyImageAlias(hp, h) == [heap |-> hp, image |-> h]

\* line 273: image.copy(), a new object without the format tag.
CopyImage(hp, h) == Alloc(hp, [hp[h] EXCEPT !.format = NoFormat])

PassthroughAnyFormat(img, size, response_body) ==
    size = NoneVal /\ response_body # NoneVal

\* lines 272, 282: no size, a response body, and still tagged JPEG.
Passthrough(img, size, response_body) ==
    size = NoneVal /\ response_body # NoneVal /\ img.format = "JPEG"

ConvertImage(hp, h, size, response_body) ==
    LET n == Normalize(hp, h)
        c == IF size # NoneVal THEN CopyImage(n.heap, n.image) ELSE n
        hp2 == IF size # NoneVal
               THEN [c.heap EXCEPT ![c.image] = Thumbnail(@, size)]
               ELSE c.heap
        pass == Passthrough(hp2[c.image], size, response_body)
    IN  [heap |-> hp2,
         image |-> c.image,
         buf |-> IF pass THEN response_body[1] ELSE Written(Save(hp2[c.image])),
         passthrough |-> pass,
         warned |-> response_body = NoneVal]

(***************************************************************************)
(* file_path and thumb_path.                                               *)
(***************************************************************************)
FilePath(url) == <<"full", Sha1(url), "jpg">>

ThumbPathByLabel(url, thumb_id) == <<"thumbs", thumb_id, Sha1(thumb_id), "jpg">>

ThumbPath(url, thumb_id) == <<"thumbs", thumb_id, Sha1(url), "jpg">>

(***************************************************************************)
(* ImagesPipeline.get_images and image_downloaded.                         *)
(***************************************************************************)
\* line 210
TooSmallStrict(width, height, min_width, min_height) ==
    width <= min_width \/ height <= min_height

TooSmall(width, height, min_width, min_height) ==
    width < min_width \/ height < min_height

\* get_func_args(self.convert_image): the default method takes response_body;
\* an override written against the old signature does not.
GetFuncArgs(accepts_body) ==
    IF accepts_body THEN {"image", "size", "response_body"} ELSE {"image", "size"}

\* lines 218-220
DetectDeprecated(accepts_body) == "response_body" \notin GetFuncArgs(accepts_body)

Truthy(f) == f = Some(TRUE)

FlagBranchAlways(f) == "flag_set"

\* line 217: the detection runs only while the flag is None.
FlagBranch(f) == IF f = NoneVal THEN "flag_set" ELSE "full"

\* lines 228-233 and 240-243: the call made under either convention.  An
\* override with the old signature is taken to behave as the default method
\* called without response_body.
CallConvert(deprecated, hp, h, size, body) ==
    ConvertImage(hp, h, size, IF deprecated THEN NoneVal ELSE body)

ChecksumStepAlways(checksum, buf) ==
    [checksum |-> Some(Md5Sum(Seek0(buf))), hashed |-> TRUE]

\* lines 184-186
ChecksumStep(checksum, buf) ==
    IF checksum = NoneVal
    THEN [checksum |-> Some(Md5Sum(Seek0(buf))), hashed |-> TRUE]
    ELSE [checksum |-> checksum, hashed |-> FALSE]

\* lines 187-194: the persist_file call for one yielded triple.
PersistCall(path, img, buf) ==
    [path |-> path, data |-> buf.data, width |-> img.w, height |-> img.h]

\* failed_at while no convert_image call has raised
NoFail == 0 - 1

Invocations == DOMAIN pc

InitLoc ==
    [path |-> NoneVal, orig_image |-> 0, image |-> 0, buf |-> NoneVal, k |-> 0,
     checksum |-> NoneVal, found_unset |-> FALSE]

InitObs ==
    [seen |-> {}, conv |-> {}, warnings |-> <<>>, convert_calls |-> 0,
     md5_calls |-> 0, failed_at |-> NoFail, error |-> "none"]

Raise(i, kind, at, ncalls, warns) ==
    /\ pc' = [pc EXCEPT ![i] = "raised"]
    /\ obs' = [obs EXCEPT ![i].error = kind,
                          ![i].failed_at = at,
                          ![i].convert_calls = @ + ncalls,
                          ![i].warnings = @ \o warns]

\* lines 183, 206-215: the generator starts: path, Image.open, the size check.
Enter(i) ==
    /\ pc[i] = "pending"
    /\ loc' = [loc EXCEPT ![i].path = Some(FilePath(request[i])),
                          ![i].orig_image =
                              IF response[i].decodable THEN Len(heap[i]) + 1 ELSE 0]
    /\ IF ~response[i].decodable
       THEN /\ Raise(i, "decode", NoFail, 0, <<>>)
            /\ UNCHANGED heap
       ELSE LET orig == ImageOpen(response[i])
            IN  /\ heap' = [heap EXCEPT ![i] = Append(@, orig)]
                /\ IF TooSmall(orig.w, orig.h, cfg.min_width, cfg.min_height)
                   THEN Raise(i, "too_small", NoFail, 0, <<>>)
                   ELSE /\ pc' = [pc EXCEPT ![i] = "flag_test"]
                        /\ UNCHANGED obs
    /\ UNCHANGED <<cfg, flag, request, response, yielded, persisted, result,
                   call, ret>>

\* line 217
FlagTest(i) ==
    /\ pc[i] = "flag_test"
    /\ loc' = [loc EXCEPT ![i].found_unset = (flag = NoneVal)]
    /\ obs' = [obs EXCEPT ![i].seen = @ \cup {flag}]
    /\ pc' = [pc EXCEPT ![i] = FlagBranch(flag)]
    /\ UNCHANGED <<cfg, flag, request, response, heap, yielded, persisted,
                   result, call, ret>>

\* lines 218-220
FlagSet(i) ==
    /\ pc[i] = "flag_set"
    /\ flag' = Some(DetectDeprecated(cfg.accepts_body))
    /\ pc' = [pc EXCEPT ![i] = "flag_warn"]
    /\ UNCHANGED <<cfg, request, response, heap, loc, yielded, persisted,
                   result, obs, call, ret>>

\* lines 221-226
FlagWarn(i) ==
    /\ pc[i] = "flag_warn"
    /\ obs' = [obs EXCEPT ![i].seen = @ \cup {flag},
                          ![i].warnings =
                              IF Truthy(flag)
                              THEN Append(@, "overridden") ELSE @]
    /\ pc' = [pc EXCEPT ![i] = "full"]
    /\ UNCHANGED <<cfg, flag, request, response, heap, loc, yielded, persisted,
                   result, call, ret>>

\* what one convert_image call adds to the observations of invocation i
Observe(o, f, r) ==
    [o EXCEPT !.seen = @ \cup {f},
              !.conv = @ \cup {IF Truthy(f) THEN "legacy" ELSE "response_body"},
              !.convert_calls = @ + 1,
              !.warnings = IF r.warned THEN Append(@, "called") ELSE @]

\* lines 183-194 for one yielded triple: checksum, then persist_file.
Consume(i, path, r, o) ==
    LET cs == ChecksumStep(loc[i].checksum, r.buf)
    IN  /\ yielded' = [yielded EXCEPT ![i] =
                          Append(@, [path |-> path, image |-> r.image, buf |-> r.buf])]
        /\ persisted' = [persisted EXCEPT ![i] =
                          Append(@, PersistCall(path, r.heap[r.image], r.buf))]
        /\ obs' = [obs EXCEPT ![i] =
                      [o EXCEPT !.md5_calls = @ + (IF cs.hashed THEN 1 ELSE 0)]]
        /\ loc' = [loc EXCEPT ![i].checksum = cs.checksum,
                              ![i].image = IF loc[i].k = 0 THEN r.image ELSE @,
                              ![i].buf = IF loc[i].k = 0 THEN Some(r.buf) ELSE @,
                              ![i].k = @ + 1]
        /\ heap' = [heap EXCEPT ![i] = r.heap]

\* lines 228-234, then the loop body of image_downloaded for the full image.
\* The convert_image call either returns or raises (Pillow's lazy decoding,
\* the encoder, memory); an exception leaves the generator and the loop.
EmitFull(i) ==
    /\ pc[i] = "full"
    /\ \E raises \in BOOLEAN :
         LET r == CallConvert(Truthy(flag), heap[i], loc[i].orig_image, NoneVal,
                              Some(BytesIO(RawBytes(response[i]))))
             o == Observe(obs[i], flag, r)
         IN  IF raises
             THEN /\ pc' = [pc EXCEPT ![i] = "raised"]
                  /\ obs' = [obs EXCEPT ![i] =
                                [o EXCEPT !.error = "convert", !.failed_at = 0]]
                  /\ UNCHANGED <<heap, loc, yielded, persisted>>
             ELSE /\ pc' = [pc EXCEPT ![i] = "thumbs"]
                  /\ Consume(i, loc[i].path[1], r, o)
    /\ UNCHANGED <<cfg, flag, request, response, result, call, ret>>

NextThumbReversed(thumbs, k) == thumbs[Len(thumbs) + 1 - k]

\* line 236: self.thumbs.items(), in insertion order.
NextThumb(thumbs, k) == thumbs[k]

AfterThumbRaiseSkip(k, n) == "thumbs"

\* lines 241-244: an exception in the thumbnail loop is not caught.
AfterThumbRaise(k, n) == "raised"

\* lines 236-244, then the loop body of image_downloaded for one thumbnail.
EmitThumb(i) ==
    /\ pc[i] = "thumbs"
    /\ loc[i].k <= Len(cfg.thumbs)
    /\ \E raises \in BOOLEAN :
         LET t == NextThumb(cfg.thumbs, loc[i].k)
             r == CallConvert(Truthy(flag), heap[i], loc[i].image, t.size,
                              loc[i].buf)
             o == Observe(obs[i], flag, r)
         IN  IF raises
             THEN /\ pc' = [pc EXCEPT ![i] = AfterThumbRaise(loc[i].k, Len(cfg.thumbs))]
                  /\ obs' = [obs EXCEPT ![i] =
                                [o EXCEPT !.error = "convert", !.failed_at = loc[i].k]]
                  /\ loc' = [loc EXCEPT ![i].k =
                                IF AfterThumbRaise(loc[i].k, Len(cfg.thumbs)) = "raised"
                                THEN @ ELSE @ + 1]
                  /\ UNCHANGED <<heap, yielded, persisted>>
             ELSE /\ UNCHANGED pc
                  /\ Consume(i, ThumbPath(request[i], t.id), r, o)
    /\ UNCHANGED <<cfg, flag, request, response, result, call, ret>>

\* lines 195-196: the generator is exhausted.
Return(i) ==
    /\ pc[i] = "thumbs"
    /\ loc[i].k > Len(cfg.thumbs)
    /\ IF loc[i].checksum = NoneVal
       THEN /\ Raise(i, "assert", NoFail, 0, <<>>)
            /\ UNCHANGED result
       ELSE /\ pc' = [pc EXCEPT ![i] = "returned"]
            /\ result' = [result EXCEPT ![i] = loc[i].checksum]
            /\ UNCHANGED obs
    /\ UNCHANGED <<cfg, flag, request, response, heap, loc, yielded, persisted,
                   call, ret>>

(***************************************************************************)
(* A stand-alone call of convert_image on a freshly opened image.          *)
(***************************************************************************)
ConvertCall ==
    /\ call # NoneVal
    /\ ret = NoneVal
    /\ ret' = Some(ConvertImage(<<call[1].image>>, 1, call[1].size,
                                call[1].response_body))
    /\ UNCHANGED <<pipeVars, call>>

(***************************************************************************)
(* The inputs.                                                             *)
(***************************************************************************)
\* the (format, mode) pairs Pillow opens files as
FormatModes ==
    {<<"JPEG", "RGB">>, <<"JPEG", "L">>, <<"PNG", "RGB">>, <<"PNG", "RGBA">>,
     <<"PNG", "P">>, <<"PNG", "LA">>, <<"WEBP", "RGBA">>, <<"TIFF", "RGBA">>}

\* the images of the given formats, sizes, pixel values and alphas; a mode
\* without an alpha band is opaque
Images(FMs, Ws, Hs, Vs, As) ==
    {im \in [format : {fm[1] : fm \in FMs}, mode : {fm[2] : fm \in FMs},
             w : Ws, h : Hs, v : Vs, a : As \cup {Opaque}] :
        /\ <<im.format, im.mode>> \in FMs
        /\ ~HasAlpha(im.mode) => im.a = Opaque}

Garbage ==
    [img |-> [format |-> NoFormat, mode |-> "RGB", w |-> 0, h |-> 0, v |-> 0,
              a |-> 0],
     variant |-> 0, decodable |-> FALSE]

Bodies(Imgs, Variants) ==
    {[img |-> im, variant |-> vr, decodable |-> TRUE] : im \in Imgs, vr \in Variants}
    \cup {Garbage}

URLS == {"http://a/1.png", "http://a/2.png"}

Labels == {"small", "big"}

\* IMAGES_THUMBS: an insertion-ordered dict, so a sequence of entries with
\* distinct labels.
ThumbConfigs(Boxes) ==
    {t \in UNION {[1..n -> [id : Labels, size : Boxes]] : n \in 0..Cardinality(Labels)} :
        \A j, k \in DOMAIN t : j # k => t[j].id # t[k].id}

Configs(Mins, Boxes, Accepts) ==
    [min_width : Mins, min_height : Mins, thumbs : ThumbConfigs(Boxes),
     accepts_body : Accepts]

Box(n) == {<<x, y>> : x \in 1..n, y \in 1..n}

(***************************************************************************)
(* The state after __init__ (line 134: the flag is None), with the         *)
(* responses of the invocations in I downloaded and not yet handled.       *)
(***************************************************************************)
InitPipe(I, Cfgs, Urls, Bods) ==
    /\ cfg \in Cfgs
    /\ flag = NoneVal
    /\ request \in [I -> Urls]
    /\ response \in [I -> Bods]
    /\ pc = [i \in I |-> "pending"]
    /\ heap = [i \in I |-> <<>>]
    /\ loc = [i \in I |-> InitLoc]
    /\ yielded = [i \in I |-> <<>>]
    /\ persisted = [i \in I |-> <<>>]
    /\ result = [i \in I |-> NoneVal]
    /\ obs = [i \in I |-> InitObs]

\* two invocations on one pipeline, their steps interleaved
Init ==
    /\ InitPipe({1, 2}, Configs({0}, {<<1, 1>>}, BOOLEAN), URLS,
                Bodies(Images({<<"JPEG", "RGB">>, <<"PNG", "RGBA">>}, {2}, {2}, {0},
                              {Opaque}),
                       {0, 1}))
    /\ call = NoneVal
    /\ ret = NoneVal

\* one invocation: every thumbnail configuration and source size
InitThumbs ==
    InitPipe({1}, Configs({0}, Box(MaxBox), BOOLEAN), URLS,
             Bodies(Images({<<"JPEG", "RGB">>, <<"PNG", "RGBA">>},
                           1..MaxDim, 1..MaxDim, {0}, {Opaque}), {0}))

\* one invocation: every source format and mode
InitFormats ==
    InitPipe({1}, Configs({0}, {<<1, 1>>}, BOOLEAN), URLS,
             Bodies(Images(FormatModes, {MaxDim}, {MaxDim}, {0, White}, {0}),
                    {0, 1}))

\* one invocation: every source size against every minimum size
InitSizes ==
    InitPipe({1}, Configs(0..MaxMin, {<<1, 1>>}, BOOLEAN), {"http://a/1.png"},
             Bodies(Images({<<"JPEG", "RGB">>}, 1..MaxDim, 1..MaxDim, {0},
                           {Opaque}), {0}))

InitItem ==
    /\ InitThumbs \/ InitFormats \/ InitSizes
    /\ call = NoneVal
    /\ ret = NoneVal

ConvertCalls ==
    [image : Images(FormatModes, 1..BigDim, 1..BigDim, {0, White}, {0}),
     size : {NoneVal} \cup Box(BigBox),
     response_body : {NoneVal, Some(BytesIO(EmptyBytes))}]

InitConvert ==
    /\ InitPipe({}, Configs({0}, {<<1, 1>>}, {TRUE}), URLS, {Garbage})
    /\ call \in {Some(c) : c \in ConvertCalls}
    /\ ret = NoneVal

Next ==
    \/ \E i \in Invocations : Enter(i)
    \/ \E i \in Invocations : FlagTest(i)
    \/ \E i \in Invocations : FlagSet(i)
    \/ \E i \in Invocations : FlagWarn(i)
    \/ \E i \in Invocations : EmitFull(i)
    \/ \E i \in Invocations : EmitThumb(i)
    \/ \E i \in Invocations : Return(i)

Spec == Init /\ [][Next]_vars

SpecItem == InitItem /\ [][Next]_vars

SpecConvert == InitConvert /\ [][ConvertCall]_vars

(***************************************************************************)
(* Helpers of the properties.                                              *)
(***************************************************************************)
NThumbs == Len(cfg.thumbs)

Source(i) == response[i].img

\* the paths of a complete run: the full path, then one per thumbnail entry
ExpectedPaths(i) ==
    [k \in 1..(1 + NThumbs) |->
        IF k = 1 THEN <<"full", Sha1(request[i]), "jpg">>
        ELSE <<"thumbs", cfg.thumbs[k - 1].id, Sha1(request[i]), "jpg">>]

PathsOf(seq) == [k \in DOMAIN seq |-> seq[k].path]

Prefix(seq, n) == [k \in 1..n |-> seq[k]]

\* persist_file was called once per yielded triple, in order, with its bytes
PersistedAsYielded(i) ==
    /\ Len(persisted[i]) = Len(yielded[i])
    /\ \A k \in DOMAIN yielded[i] :
         /\ persisted[i][k].path = yielded[i][k].path
         /\ persisted[i][k].data = yielded[i][k].buf.data

(***************************************************************************)
(* C1: when a source is decoded and accepted and no convert_image call     *)
(* fails, get_images yields exactly 1 + n triples, the full-size one first *)
(* and then one per entry of IMAGES_THUMBS in insertion order, and         *)
(* image_downloaded calls persist_file exactly once per yielded triple, in *)
(* that order; at no time is there a persist call without its triple.      *)
(***************************************************************************)
C1_ArtifactsInOrder ==
    \A i \in Invocations :
        /\ PersistedAsYielded(i)
        /\ Len(yielded[i]) <= 1 + NThumbs
        /\ PathsOf(yielded[i]) = Prefix(ExpectedPaths(i), Len(yielded[i]))
        /\ pc[i] = "returned" =>
             /\ Len(yielded[i]) = 1 + NThumbs
             /\ PathsOf(persisted[i]) = ExpectedPaths(i)

C1_Witness ==
    /\ pc[1] = "returned"
    /\ NThumbs = 2
    /\ cfg.thumbs[1].id = "small"
    /\ cfg.thumbs[2].id = "big"
    /\ Len(persisted[1]) = 3

(***************************************************************************)
(* C2: a decoded source of size (w, h) is rejected as too small exactly    *)
(* when w < min_width or h < min_height; a rejected source yields nothing, *)
(* and neither convert_image nor persist_file is called for it.            *)
(***************************************************************************)
C2_TooSmallRejected ==
    \A i \in Invocations :
        (pc[i] # "pending" /\ response[i].decodable) =>
            /\ obs[i].error = "too_small" <=>
                   (Source(i).w < cfg.min_width \/ Source(i).h < cfg.min_height)
            /\ obs[i].error = "too_small" =>
                   /\ pc[i] = "raised"
                   /\ yielded[i] = <<>>
                   /\ persisted[i] = <<>>
                   /\ obs[i].convert_calls = 0
                   /\ result[i] = NoneVal

C2_Witness ==
    /\ pc[1] = "raised"
    /\ obs[1].error = "too_small"
    /\ Source(1).w = cfg.min_width
    /\ Source(1).h = cfg.min_height - 1

(***************************************************************************)
(* C3 as claimed: when the derivation of thumbnail k fails, every other    *)
(* configured thumbnail is still persisted and the checksum of the full    *)
(* image is still returned once the invocation has ended.                  *)
(***************************************************************************)
Ended(i) == pc[i] \in {"raised", "returned"}

C4_PassthroughLaw ==
    \A i \in Invocations :
        (cfg.accepts_body /\ Len(yielded[i]) >= 1) =>
            LET full == yielded[i][1].buf.data
                raw == [kind |-> "raw", img |-> Source(i),
                        variant |-> response[i].variant]
                jpegRgb == Source(i).format = "JPEG" /\ Source(i).mode = "RGB"
            IN  /\ full = raw <=> jpegRgb
                /\ ~jpegRgb =>
                     /\ full.kind = "jpeg"
                     /\ full.img.w = Source(i).w
                     /\ full.img.h = Source(i).h
                /\ \A k \in 2..Len(yielded[i]) :
                     /\ yielded[i][k].buf.data.kind = "jpeg"
                     /\ yielded[i][k].buf.data # raw

C4_Witness ==
    /\ cfg.accepts_body
    /\ Len(yielded[1]) = 2
    /\ Source(1).format = "JPEG"
    /\ Source(1).mode = "RGB"
    /\ yielded[1][1].buf.data.kind = "raw"
    /\ yielded[1][2].buf.data.kind = "jpeg"

(***************************************************************************)
(* C6: when image_downloaded returns, its checksum is not None and is the  *)
(* MD5 of the bytes of the full-size triple, the very bytes given to       *)
(* persist_file for the full path; it was computed exactly once, and never *)
(* from a thumbnail's bytes.                                               *)
(***************************************************************************)
C6_ChecksumOfFull ==
    \A i \in Invocations :
        /\ obs[i].md5_calls <= 1
        /\ pc[i] = "returned" =>
             /\ result[i] # NoneVal
             /\ result[i] = <<<<"md5", persisted[i][1].data>>>>
             /\ persisted[i][1].path = <<"full", Sha1(request[i]), "jpg">>
             /\ persisted[i][1].data = yielded[i][1].buf.data
             /\ obs[i].md5_calls = 1

C6_Witness ==
    /\ pc[1] = "returned"
    /\ Len(persisted[1]) = 3
    /\ persisted[1][1].data # persisted[1][2].data
    /\ persisted[1][1].data # persisted[1][3].data

(***************************************************************************)
(* C9: deriving thumbnails leaves their input alone: the full-size image   *)
(* object already yielded keeps the source's width and height, every       *)
(* thumbnail is a separate object, and its size is the size a thumbnail    *)
(* of the SOURCE size within its own bounds has, wherever its entry stands *)
(* in IMAGES_THUMBS.                                                       *)
(***************************************************************************)
C9_ThumbnailsFromCopies ==
    \A i \in Invocations :
        Len(yielded[i]) >= 1 =>
            LET fullh == yielded[i][1].image
            IN  /\ heap[i][fullh].w = Source(i).w
                /\ heap[i][fullh].h = Source(i).h
                /\ persisted[i][1].width = Source(i).w
                /\ persisted[i][1].height = Source(i).h
                /\ \A k \in 2..Len(yielded[i]) :
                     LET th == heap[i][yielded[i][k].image]
                         box == cfg.thumbs[k - 1].size
                     IN  /\ yielded[i][k].image # fullh
                         /\ <<th.w, th.h>> =
                                ThumbnailSize(Source(i).w, Source(i).h, box[1], box[2])
                         /\ persisted[i][k].width = th.w
                         /\ persisted[i][k].height = th.h

C9_Witness ==
    /\ pc[1] = "returned"
    /\ NThumbs = 2
    /\ Source(1).w = 3
    /\ Source(1).h = 3
    /\ cfg.thumbs[1].size = <<1, 1>>
    /\ cfg.thumbs[2].size = <<2, 2>>
    /\ persisted[1][3].width = 2

(***************************************************************************)
(* C5 as claimed, for the default convert_image: two invocations with the  *)
(* same request URL and different response bodies persist under the same   *)
(* sequence of paths and return different checksums.                       *)
(***************************************************************************)
SameUrlOtherBytes(i, j) ==
    /\ pc[i] = "returned"
    /\ pc[j] = "returned"
    /\ request[i] = request[j]
    /\ response[i] # response[j]

C5_PathsEqualChecksumsDiffer ==
    \A i, j \in Invocations :
        (cfg.accepts_body /\ SameUrlOtherBytes(i, j)) =>
            /\ PathsOf(persisted[i]) = PathsOf(persisted[j])
            /\ result[i] # result[j]

(***************************************************************************)
(* C5 amended: the paths depend on the URL and the thumbnail labels only:  *)
(* two invocations with the same URL persist under the same sequence of    *)
(* paths whatever their bodies, and every path of an invocation carries    *)
(* the SHA-1 of its URL (full/<hash>.jpg, thumbs/<label>/<hash>.jpg).      *)
(* Their checksums differ exactly when the bytes of their full-size        *)
(* triples differ: always for two different bodies passed through, not     *)
(* for two bodies that decode to the same image and are re-encoded.        *)
(***************************************************************************)
C5_PathsFromUrlOnly ==
    /\ \A i \in Invocations :
         \A k \in DOMAIN persisted[i] :
             LET path == persisted[i][k].path
             IN  IF k = 1
                 THEN path = <<"full", <<"sha1", request[i]>>, "jpg">>
                 ELSE path = <<"thumbs", cfg.thumbs[k - 1].id,
                               <<"sha1", request[i]>>, "jpg">>
    /\ \A i, j \in Invocations :
         (pc[i] = "returned" /\ pc[j] = "returned") =>
             /\ request[i] = request[j] =>
                    PathsOf(persisted[i]) = PathsOf(persisted[j])
             /\ result[i] = result[j] <=>
                    persisted[i][1].data = persisted[j][1].data
             /\ (/\ response[i] # response[j]
                 /\ persisted[i][1].data.kind = "raw"
                 /\ persisted[j][1].data.kind = "raw") => result[i] # result[j]

C5_Witness ==
    /\ SameUrlOtherBytes(1, 2)
    /\ NThumbs = 2
    /\ PathsOf(persisted[1]) = PathsOf(persisted[2])
    /\ Len(persisted[1]) = 3
    /\ persisted[1][1].data.kind = "raw"
    /\ result[1] # result[2]

(***************************************************************************)
(* C10: _deprecated_convert_image is None after __init__; once set it      *)
(* never changes; it is set only by an invocation that found it None;      *)
(* under every interleaving all invocations read the same value from it    *)
(* once it is set, every convert_image call of one invocation uses one     *)
(* calling convention, and the "overridden in a deprecated way" warning    *)
(* is emitted only by an invocation that found the flag None.              *)
(***************************************************************************)
FlagNeverChanges == flag # NoneVal => flag' = flag

FlagSetByFinder ==
    flag' # flag => \E i \in Invocations : pc[i] = "flag_set" /\ loc[i].found_unset

FlagReads ==
    /\ \A i, j \in Invocations :
         Cardinality((obs[i].seen \cup obs[j].seen) \ {NoneVal}) <= 1
    /\ \A i \in Invocations :
         /\ (obs[i].seen \ {NoneVal}) \subseteq {flag}
         /\ Cardinality(obs[i].conv) <= 1
         /\ pc[i] \in {"flag_warn", "full", "thumbs", "returned"} => flag # NoneVal
         /\ (\E k \in DOMAIN obs[i].warnings : obs[i].warnings[k] = "overridden")
                => loc[i].found_unset
         /\ Len(SelectSeq(obs[i].warnings, LAMBDA x : x = "overridden")) <= 1

C10_FlagMemoized ==
    /\ flag = NoneVal
    /\ [][FlagNeverChanges /\ FlagSetByFinder]_vars
    /\ []FlagReads

C10_Witness ==
    /\ ~cfg.accepts_body
    /\ NThumbs = 1
    /\ \A i \in Invocations :
         /\ pc[i] = "returned"
         /\ loc[i].found_unset
         /\ obs[i].warnings[1] = "overridden"
         /\ obs[i].conv = {"legacy"}

(***************************************************************************)
(* C7: for every image with a transparent pixel (alpha 0 in an alpha band  *)
(* or through palette transparency), whatever its format and mode, the     *)
(* image convert_image returns is in mode RGB, opaque, and white where the *)
(* source was transparent.                                                 *)
(***************************************************************************)
Called == ret # NoneVal

Arg == call[1]

Returned == ret[1].heap[ret[1].image]

C7_TransparentToWhite ==
    (Called /\ HasAlpha(Arg.image.mode) /\ Arg.image.a = 0) =>
        /\ Returned.mode = "RGB"
        /\ Returned.a = Opaque
        /\ Returned.v = White

(***************************************************************************)
(* C8: for thumbnail bounds (W, H) with W, H > 0 and a source of size      *)
(* (w, h), the image convert_image returns has a size (tw, th) with        *)
(* tw <= W, th <= H, tw <= w, th <= h; a source inside the bounds keeps    *)
(* its size; and (tw, th) is (w, h) scaled by s = min(W/w, H/h, 1) to      *)
(* within one pixel per axis, the limiting axis being exact.               *)
(***************************************************************************)
\* s = ScaleNum / ScaleDen
ScaleNum(w, h, W, H) ==
    IF W >= w /\ H >= h THEN 1 ELSE IF W * h <= H * w THEN W ELSE H

ScaleDen(w, h, W, H) ==
    IF W >= w /\ H >= h THEN 1 ELSE IF W * h <= H * w THEN w ELSE h

C8_ThumbnailFitsBox ==
    (Called /\ Arg.size # NoneVal) =>
        LET w == Arg.image.w
            h == Arg.image.h
            W == Arg.size[1]
            H == Arg.size[2]
            tw == Returned.w
            th == Returned.h
            num == ScaleNum(w, h, W, H)
            den == ScaleDen(w, h, W, H)
        IN  /\ 1 <= tw /\ tw <= W /\ tw <= w
            /\ 1 <= th /\ th <= H /\ th <= h
            /\ (W >= w /\ H >= h) => (tw = w /\ th = h)
            /\ Abs(tw * den - num * w) < den
            /\ Abs(th * den - num * h) < den
            /\ tw * den = num * w \/ th * den = num * h

C8_Witness ==
    /\ Called
    /\ Arg.image.w = 7
    /\ Arg.image.h = 5
    /\ Arg.size = <<4, 2>>
    /\ Returned.w = 3
    /\ Returned.h = 2

====
